---- MODULE Spec2Model ----
(***************************************************************************)
(* A model of the text extractor of src/main.rs: dispatch, extract_pdf     *)
(* (with its OCR fallback) and extract_docx (with extract_paragraph).      *)
(*                                                                         *)
(* A string is modelled by its run-length encoding: a sequence of          *)
(* [ch, n] segments in which adjacent segments differ in ch and every n    *)
(* is positive.  Two strings are equal iff their encodings are equal, and  *)
(* the byte length of an (ASCII) string is the sum of its n's.             *)
(***************************************************************************)
EXTENDS Integers, Sequences, FiniteSets

\* ------------------------------------------------------------ constants

MIN_TEXT_LEN == 256

MAX_TEXT_LEN == 32768

MIN_INPUT_LEN == 256

MAX_INPUT_LEN == 5 * 1024 * 1024

\* The model looks at the PDF documents of at most MaxObjects objects and at
\* the DOCX bodies of size at most MaxDocSize.
MaxObjects == 2

MaxDocSize == 4

\* ------------------------------------------------------------ strings

Str(c, n) == IF n = 0 THEN << >> ELSE << [ch |-> c, n |-> n] >>

\* String::push_str / String::push: concatenation, kept in normal form.
push_str(s, t) ==
    IF s = << >> THEN t
    ELSE IF t = << >> THEN s
    ELSE IF s[Len(s)].ch = t[1].ch
         THEN SubSeq(s, 1, Len(s) - 1)
                \o << [ch |-> t[1].ch, n |-> s[Len(s)].n + t[1].n] >>
                \o Tail(t)
         ELSE s \o t

push(s, c) == push_str(s, Str(c, 1))

RECURSIVE len(_)
\* String::len: the byte length.
len(s) == IF s = << >> THEN 0 ELSE s[1].n + len(Tail(s))

\* char::is_whitespace on the characters of the model.
is_whitespace(c) == c \in {" ", "\n", "\t"}

RECURSIVE trim_start(_)
trim_start(s) ==
    IF s = << >> THEN s
    ELSE IF is_whitespace(s[1].ch) THEN trim_start(Tail(s)) ELSE s

RECURSIVE trim_end(_)
trim_end(s) ==
    IF s = << >> THEN s
    ELSE IF is_whitespace(s[Len(s)].ch) THEN trim_end(SubSeq(s, 1, Len(s) - 1))
    ELSE s

\* str::trim: leading and trailing whitespace removed.
trim(s) == trim_end(trim_start(s))

\* buf.trim().len()
effective_len(s) == len(trim(s))

\* The set S itself.  Taking its cardinality makes TLC sort its elements, and a
\* union with a sorted left operand is computed by binary search.
Sorted(S) == IF Cardinality(S) >= 0 THEN S ELSE { }

\* ------------------------------------------------------------ results

NoResult == [type |-> "None", text |-> << >>, error |-> "", n |-> 0, kind |-> ""]

\* Ok(text), wrapped by main as ExtractionResult::Text.
Ok(t) == [type |-> "Text", text |-> t, error |-> "", n |-> 0, kind |-> ""]

\* Err(format!(...)), wrapped by main as ExtractionResult::Error; n and kind
\* are the values the message is formatted with.
Err(msg, num, k) == [type |-> "Error", text |-> << >>, error |-> msg, n |-> num, kind |-> k]

\* ------------------------------------------------------------ PDF inputs

PDF == "application/pdf"

DOCX == "application/vnd.openxmlformats-officedocument.wordprocessingml.document"

\* What infer::get can answer for a buffer ("none": no kind is recognised).
Kinds == {"none", PDF, DOCX, "image/png", "image/bmp"}

\* The kinds the specification lists as OCR candidates.
ImageWhitelist == {"image/png", "image/jpeg", "image/tiff", "image/gif", "image/webp"}

\* What extract_text can return for the pages of a document.
NativeTexts ==
    { << >>,
      Str("n", MIN_TEXT_LEN - 1) \o Str("\n", 1),
      Str(" ", MIN_TEXT_LEN),
      Str("n", MIN_TEXT_LEN) \o Str("\n", 1),
      Str("n", MAX_TEXT_LEN) \o Str("\n", 1),
      Str("n", MAX_TEXT_LEN + 1) }

\* What the OCR engine can recognise in one image.
OcrTexts ==
    { Str(" ", MIN_TEXT_LEN),
      Str("o", MIN_TEXT_LEN - 1),
      Str("o", MIN_TEXT_LEN),
      Str("o", MAX_TEXT_LEN),
      Str("o", MAX_TEXT_LEN + 1) }

\* The content of a stream: whether it is empty, the kind its bytes sniff to,
\* whether Pix::read_mem decodes it, and what recognition then gives
\* ("ok": text; "utf8": text that is not UTF-8; "err": get_utf8_text fails).
NoData == [empty |-> TRUE, kind |-> "none", pix |-> FALSE, ocr |-> "err", text |-> << >>]

ImageData ==
    { NoData }
    \cup { [empty |-> FALSE, kind |-> k, pix |-> FALSE, ocr |-> "err", text |-> << >>] :
             k \in {"image/png", "image/bmp", "none"} }
    \cup { [empty |-> FALSE, kind |-> k, pix |-> TRUE, ocr |-> "ok", text |-> t] :
             k \in {"image/png", "image/bmp"}, t \in OcrTexts }
    \cup { [empty |-> FALSE, kind |-> k, pix |-> TRUE, ocr |-> o, text |-> << >>] :
             k \in {"image/png", "image/bmp"}, o \in {"utf8", "err"} }

\* An object of document.objects: whether get_object resolves it, whether it
\* is a stream, and its /Subtype entry ("absent", "nonname": not a name, or
\* the name itself).
OtherObjects ==
    { [resolves |-> FALSE, stream |-> FALSE, subtype |-> "absent", content |-> NoData],
      [resolves |-> TRUE, stream |-> FALSE, subtype |-> "absent", content |-> NoData],
      [resolves |-> TRUE, stream |-> TRUE, subtype |-> "absent", content |-> NoData],
      [resolves |-> TRUE, stream |-> TRUE, subtype |-> "nonname", content |-> NoData],
      [resolves |-> TRUE, stream |-> TRUE, subtype |-> "Form", content |-> NoData] }

ImageObjects ==
    { [resolves |-> TRUE, stream |-> TRUE, subtype |-> "Image", content |-> d] :
        d \in ImageData }

Objects == OtherObjects \cup ImageObjects

RECURSIVE ObjectSeqsOfLen(_)
ObjectSeqsOfLen(k) ==
    IF k = 0 THEN { << >> } ELSE Sorted([1..k -> Objects]) \cup ObjectSeqsOfLen(k - 1)

ObjectSeqs == ObjectSeqsOfLen(MaxObjects)

\* What Document::load_mem and extract_text give for the input.
BadPdf == [load |-> FALSE, extract |-> FALSE, text |-> << >>, objects |-> << >>]

PdfFiles ==
    { BadPdf }
    \cup { [load |-> TRUE, extract |-> FALSE, text |-> << >>, objects |-> << >>] }
    \cup Sorted({ [load |-> TRUE, extract |-> TRUE, text |-> t, objects |-> os] :
                    t \in NativeTexts, os \in ObjectSeqs })

\* ------------------------------------------------------------ DOCX inputs

\* A node of the tree docx_rs::read_docx gives: its kind, its text (a text
\* run's) and its children.
Leaf(tag) == [tag |-> tag, text |-> << >>, children |-> << >>]

Node(tag, cs) == [tag |-> tag, text |-> << >>, children |-> cs]

Text(t) == [tag |-> "Text", text |-> t, children |-> << >>]

\* The texts of the text runs.
RunTexts ==
    { Str("a", MIN_TEXT_LEN - 1), Str("b", MIN_TEXT_LEN), Str("a", MAX_TEXT_LEN) }

\* RunChild: Text, Break, Tab, or any other variant.
RunChildren ==
    { Text(t) : t \in RunTexts } \cup { Leaf("Break"), Leaf("Tab"), Leaf("OtherRunChild") }

RECURSIVE Forest(_, _), ForestFrom(_, _, _)
\* The sequences of items of total size n, F[w] being the items of size w.
Forest(F, n) == IF n = 0 THEN { << >> } ELSE ForestFrom(F, n, 1)

\* Those whose first item has size w or more.
ForestFrom(F, n, w) ==
    IF w > n THEN { }
    ELSE Sorted({ << x >> \o r : x \in F[w], r \in Forest(F, n - w) })
           \cup ForestFrom(F, n, w + 1)

Sizes == 1..MaxDocSize

\* A function on Sizes as the tuple of its values.
RECURSIVE Tabulate(_, _)
Tabulate(f, n) == IF n = 0 THEN << >> ELSE Append(Tabulate(f, n - 1), f[n])

LeafOfSize(tag, w) == IF w = 1 THEN { Leaf(tag) } ELSE { }

\* The size of a document counts its paragraphs, its tables and its leaves
\* (a run child, an empty run, row or cell, a node of another kind): a run,
\* a row or a cell with children has the size of its children.
WrapperOfSize(tag, F, w) ==
    { Node(tag, cs) : cs \in Forest(F, w) } \cup LeafOfSize(tag, w)

RunChildOfSize ==
    Tabulate([w \in Sizes |-> IF w = 1 THEN RunChildren ELSE { }], MaxDocSize)

\* ParagraphChild: Run, or any other variant.
ParagraphChildOfSize ==
    Tabulate([w \in Sizes |->
                WrapperOfSize("Run", RunChildOfSize, w)
                \cup LeafOfSize("OtherParagraphChild", w)],
             MaxDocSize)

ParagraphOfSize ==
    Tabulate([w \in Sizes |->
                { Node("Paragraph", cs) : cs \in Forest(ParagraphChildOfSize, w - 1) }],
             MaxDocSize)

\* TableCellContent: Paragraph, or any other variant.
TableCellContentOfSize ==
    Tabulate([w \in Sizes |->
                ParagraphOfSize[w] \cup LeafOfSize("OtherTableCellContent", w)],
             MaxDocSize)

TableCellOfSize ==
    Tabulate([w \in Sizes |-> WrapperOfSize("TableCell", TableCellContentOfSize, w)],
             MaxDocSize)

TableRowOfSize ==
    Tabulate([w \in Sizes |-> WrapperOfSize("TableRow", TableCellOfSize, w)],
             MaxDocSize)

TableOfSize ==
    Tabulate([w \in Sizes |->
                { Node("Table", cs) : cs \in Forest(TableRowOfSize, w - 1) }],
             MaxDocSize)

\* DocumentChild: Paragraph, Table, or any other variant.
DocumentChildOfSize ==
    Tabulate([w \in Sizes |->
                ParagraphOfSize[w] \cup TableOfSize[w]
                \cup LeafOfSize("OtherDocumentChild", w)],
             MaxDocSize)

RECURSIVE BodiesOfSize(_)
\* docx.document.children: the bodies of size k at most.
BodiesOfSize(k) ==
    IF k = 0 THEN Forest(DocumentChildOfSize, 0)
    ELSE Sorted(Forest(DocumentChildOfSize, k)) \cup BodiesOfSize(k - 1)

Bodies == BodiesOfSize(MaxDocSize)

BadDocx == [read |-> FALSE, children |-> << >>]

DocxFiles == Sorted({ [read |-> TRUE, children |-> b] : b \in Bodies }) \cup { BadDocx }

\* ------------------------------------------------------------ inputs

\* The input: its length, what infer::get answers for it, and what the PDF
\* and DOCX parsers make of it.
Input(l, k, p, d) == [len |-> l, kind |-> k, pdf |-> p, docx |-> d]

InputLens == { MIN_INPUT_LEN - 1, MIN_INPUT_LEN, MAX_INPUT_LEN, MAX_INPUT_LEN + 1 }

Inputs ==
    Sorted(Sorted({ Input(MAX_INPUT_LEN, DOCX, BadPdf, d) : d \in DocxFiles })
             \cup { Input(MAX_INPUT_LEN, PDF, p, BadDocx) : p \in PdfFiles })
      \cup { Input(l, k, BadPdf, BadDocx) : l \in InputLens, k \in Kinds }

\* ------------------------------------------------------------ state

VARIABLES
    input,          \* the bytes read from stdin (main)
    pc,             \* the statement the program is at
    buf,            \* the extracted-text buffer of extract_pdf / extract_docx
    result,         \* the ExtractionResult main builds from dispatch's return
    batch,          \* whether set_self_batch has been called
    sniffed,        \* whether infer::get has been called
    parser,         \* the parser called on the input: "none", "pdf" or "docx"
    ocr_init,       \* whether TessBaseApi::init_4 has been called
    ocr_calls,      \* the image contents given to tesseract, in order
    object_id,      \* extract_pdf: the position in document.objects
    node,           \* extract_docx: the position in docx.document.children
    row,            \* extract_docx: the position in table.rows
    cell,           \* extract_docx: the position in row.cells
    content,        \* extract_docx: the position in cell.children
    caller,         \* extract_paragraph: called for a "body" or a "cell" paragraph
    child,          \* extract_paragraph: the position in paragraph
    run_child       \* extract_paragraph: the position in run.children

vars == << input, pc, buf, result, batch, sniffed, parser, ocr_init, ocr_calls,
           object_id, node, row, cell, content, caller, child, run_child >>

observers == << batch, sniffed, parser, ocr_init, ocr_calls >>

pdf_vars == << object_id >>

docx_vars == << node, row, cell, content, caller, child, run_child >>

Init ==
    /\ input \in Inputs
    /\ pc = "dispatch"
    /\ buf = << >>
    /\ result = NoResult
    /\ batch = FALSE
    /\ sniffed = FALSE
    /\ parser = "none"
    /\ ocr_init = FALSE
    /\ ocr_calls = << >>
    /\ object_id = 0
    /\ node = 0
    /\ row = 0
    /\ cell = 0
    /\ content = 0
    /\ caller = "none"
    /\ child = 0
    /\ run_child = 0

\* return Err(...) / Ok(...) out of dispatch: main builds the result.
Return(r) ==
    /\ result' = r
    /\ pc' = "done"

\* ------------------------------------------------------------ dispatch

\* As InvalidInputLength, with the lower bound exclusive.
InvalidInputLength_strict(l) == l <= MIN_INPUT_LEN \/ l > MAX_INPUT_LEN

InvalidInputLength(l) == l < MIN_INPUT_LEN \/ l > MAX_INPUT_LEN

dispatch_invalid_length ==
    /\ pc = "dispatch"
    /\ InvalidInputLength(input.len)
    /\ Return(Err("invalid input length", input.len, ""))
    /\ UNCHANGED << input, buf, observers, pdf_vars, docx_vars >>

dispatch_valid_length ==
    /\ pc = "dispatch"
    /\ ~InvalidInputLength(input.len)
    /\ pc' = "set_self_batch"
    /\ UNCHANGED << input, buf, result, observers, pdf_vars, docx_vars >>

\* The outcome of set_self_policy is dropped (let _ =).
set_self_batch ==
    /\ pc = "set_self_batch"
    /\ batch' = TRUE
    /\ pc' = "sniff"
    /\ UNCHANGED << input, buf, result, sniffed, parser, ocr_init, ocr_calls,
                    pdf_vars, docx_vars >>

dispatch_unknown_kind ==
    /\ pc = "sniff"
    /\ input.kind = "none"
    /\ sniffed' = TRUE
    /\ Return(Err("unknown file kind", 0, ""))
    /\ UNCHANGED << input, buf, batch, parser, ocr_init, ocr_calls, pdf_vars, docx_vars >>

dispatch_pdf ==
    /\ pc = "sniff"
    /\ input.kind = PDF
    /\ sniffed' = TRUE
    /\ pc' = "extract_pdf"
    /\ UNCHANGED << input, buf, result, batch, parser, ocr_init, ocr_calls,
                    pdf_vars, docx_vars >>

dispatch_docx ==
    /\ pc = "sniff"
    /\ input.kind = DOCX
    /\ sniffed' = TRUE
    /\ pc' = "extract_docx"
    /\ UNCHANGED << input, buf, result, batch, parser, ocr_init, ocr_calls,
                    pdf_vars, docx_vars >>

dispatch_unsupported ==
    /\ pc = "sniff"
    /\ input.kind \notin {"none", PDF, DOCX}
    /\ sniffed' = TRUE
    /\ Return(Err("unsupported file type", 0, input.kind))
    /\ UNCHANGED << input, buf, batch, parser, ocr_init, ocr_calls, pdf_vars, docx_vars >>

\* ------------------------------------------------------------ extract_pdf

document == input.pdf

pdf_load_failed ==
    /\ pc = "extract_pdf"
    /\ ~document.load
    /\ parser' = "pdf"
    /\ Return(Err("failed to read input as pdf", 0, ""))
    /\ UNCHANGED << input, buf, batch, sniffed, ocr_init, ocr_calls, pdf_vars, docx_vars >>

pdf_extract_text_failed ==
    /\ pc = "extract_pdf"
    /\ document.load
    /\ ~document.extract
    /\ parser' = "pdf"
    /\ Return(Err("failed to extract text", 0, ""))
    /\ UNCHANGED << input, buf, batch, sniffed, ocr_init, ocr_calls, pdf_vars, docx_vars >>

\* let mut buf = document.extract_text(...)?
pdf_extract_text ==
    /\ pc = "extract_pdf"
    /\ document.load
    /\ document.extract
    /\ parser' = "pdf"
    /\ buf' = document.text
    /\ pc' = "pdf_native"
    /\ UNCHANGED << input, result, batch, sniffed, ocr_init, ocr_calls, pdf_vars, docx_vars >>

\* As NeedsOcr, with the comparison off by one.
NeedsOcr_off_by_one(b) == effective_len(b) <= MIN_TEXT_LEN

\* The native text is too short: the OCR fallback is taken.
NeedsOcr(b) == effective_len(b) < MIN_TEXT_LEN

pdf_native_sufficient ==
    /\ pc = "pdf_native"
    /\ ~NeedsOcr(buf)
    /\ pc' = "pdf_final"
    /\ UNCHANGED << input, buf, result, observers, pdf_vars, docx_vars >>

\* As pdf_native_insufficient, without buf.clear().
pdf_native_insufficient_no_clear ==
    /\ pc = "pdf_native"
    /\ effective_len(buf) < MIN_TEXT_LEN
    /\ pc' = "ocr_init"
    /\ UNCHANGED << input, buf, result, observers, pdf_vars, docx_vars >>

\* buf.clear()
pdf_native_insufficient ==
    /\ pc = "pdf_native"
    /\ NeedsOcr(buf)
    /\ buf' = << >>
    /\ pc' = "ocr_init"
    /\ UNCHANGED << input, result, observers, pdf_vars, docx_vars >>

ocr_init_failed ==
    /\ pc = "ocr_init"
    /\ ocr_init' = TRUE
    /\ Return(Err("failed to initialize ocr", 0, ""))
    /\ UNCHANGED << input, buf, batch, sniffed, parser, ocr_calls, pdf_vars, docx_vars >>

ocr_init_ok ==
    /\ pc = "ocr_init"
    /\ ocr_init' = TRUE
    /\ object_id' = 1
    /\ pc' = "ocr_loop"
    /\ UNCHANGED << input, buf, result, batch, sniffed, parser, ocr_calls, docx_vars >>

objects == document.objects

\* The if-let chain of the loop body: a resolvable stream whose /Subtype is
\* the name Image.
IsImageStream(o) == o.resolves /\ o.stream /\ o.subtype = "Image"

\* As ReachesOcr, without the continue on a content Pix::read_mem cannot read.
ReachesOcr_unread(d) == ~d.empty

\* The content reaches the engine: it is not empty and Pix::read_mem reads it.
ReachesOcr(d) == ~d.empty /\ d.pix

ocr_loop_end ==
    /\ pc = "ocr_loop"
    /\ object_id > Len(objects)
    /\ pc' = "pdf_final"
    /\ UNCHANGED << input, buf, result, observers, pdf_vars, docx_vars >>

ocr_skip_object ==
    /\ pc = "ocr_loop"
    /\ object_id <= Len(objects)
    /\ ~IsImageStream(objects[object_id])
    /\ object_id' = object_id + 1
    /\ UNCHANGED << input, pc, buf, result, observers, docx_vars >>

\* An empty content, or one Pix::read_mem cannot read: continue.
ocr_skip_image ==
    /\ pc = "ocr_loop"
    /\ object_id <= Len(objects)
    /\ IsImageStream(objects[object_id])
    /\ ~ReachesOcr(objects[object_id].content)
    /\ object_id' = object_id + 1
    /\ UNCHANGED << input, pc, buf, result, observers, docx_vars >>

\* As ocr_text_failed, with the failure returned instead of logged.
ocr_text_failed_aborts ==
    /\ pc = "ocr_loop"
    /\ object_id <= Len(objects)
    /\ IsImageStream(objects[object_id])
    /\ ~objects[object_id].content.empty
    /\ objects[object_id].content.pix
    /\ objects[object_id].content.ocr # "ok"
    /\ ocr_calls' = Append(ocr_calls, objects[object_id].content)
    /\ Return(Err("failed to extract text", 0, ""))
    /\ UNCHANGED << input, buf, batch, sniffed, parser, ocr_init, pdf_vars, docx_vars >>

\* get_utf8_text or to_str fails: logged, and the loop goes on.
ocr_text_failed ==
    /\ pc = "ocr_loop"
    /\ object_id <= Len(objects)
    /\ IsImageStream(objects[object_id])
    /\ ReachesOcr(objects[object_id].content)
    /\ objects[object_id].content.ocr # "ok"
    /\ ocr_calls' = Append(ocr_calls, objects[object_id].content)
    /\ object_id' = object_id + 1
    /\ UNCHANGED << input, pc, buf, result, batch, sniffed, parser, ocr_init, docx_vars >>

\* buf.push_str(text_str), the length check, buf.push('\n').
ocr_text ==
    /\ pc = "ocr_loop"
    /\ object_id <= Len(objects)
    /\ IsImageStream(objects[object_id])
    /\ ReachesOcr(objects[object_id].content)
    /\ objects[object_id].content.ocr = "ok"
    /\ ocr_calls' = Append(ocr_calls, objects[object_id].content)
    /\ LET pushed == push_str(buf, objects[object_id].content.text)
       IN  IF len(pushed) > MAX_TEXT_LEN
           THEN /\ buf' = pushed
                /\ Return(Err("invalid text length", len(pushed), ""))
                /\ UNCHANGED object_id
           ELSE /\ buf' = push(pushed, "\n")
                /\ object_id' = object_id + 1
                /\ UNCHANGED << pc, result >>
    /\ UNCHANGED << input, batch, sniffed, parser, ocr_init, docx_vars >>

\* As PdfLengthOk, without the lower bound.
PdfLengthOk_no_min(n) == ~(n > MAX_TEXT_LEN)

\* The final check of extract_pdf.
PdfLengthOk(n) == ~(n < MIN_TEXT_LEN \/ n > MAX_TEXT_LEN)

pdf_final ==
    /\ pc = "pdf_final"
    /\ IF PdfLengthOk(effective_len(buf))
       THEN Return(Ok(buf))
       ELSE Return(Err("invalid text length", effective_len(buf), ""))
    /\ UNCHANGED << input, buf, observers, pdf_vars, docx_vars >>

\* ------------------------------------------------------------ extract_docx

docx == input.docx

docx_read_failed ==
    /\ pc = "extract_docx"
    /\ ~docx.read
    /\ parser' = "docx"
    /\ Return(Err("failed to read input as docx", 0, ""))
    /\ UNCHANGED << input, buf, batch, sniffed, ocr_init, ocr_calls, pdf_vars, docx_vars >>

\* let mut buf = String::with_capacity(4096), and the loop over the body starts.
docx_read ==
    /\ pc = "extract_docx"
    /\ docx.read
    /\ parser' = "docx"
    /\ buf' = << >>
    /\ node' = 1
    /\ pc' = "body"
    /\ UNCHANGED << input, result, batch, sniffed, ocr_init, ocr_calls, pdf_vars,
                    row, cell, content, caller, child, run_child >>

\* The call extract_paragraph(&mut buf, &paragraph.children).
Call(from) ==
    /\ caller' = from
    /\ child' = 1
    /\ run_child' = 1
    /\ pc' = "paragraph"

body_end ==
    /\ pc = "body"
    /\ node > Len(docx.children)
    /\ pc' = "docx_final"
    /\ UNCHANGED << input, buf, result, observers, pdf_vars, docx_vars >>

body_paragraph ==
    /\ pc = "body"
    /\ node <= Len(docx.children)
    /\ docx.children[node].tag = "Paragraph"
    /\ Call("body")
    /\ UNCHANGED << input, buf, result, observers, pdf_vars, node, row, cell, content >>

body_table ==
    /\ pc = "body"
    /\ node <= Len(docx.children)
    /\ docx.children[node].tag = "Table"
    /\ row' = 1
    /\ cell' = 1
    /\ content' = 1
    /\ pc' = "table"
    /\ UNCHANGED << input, buf, result, observers, pdf_vars, node, caller, child, run_child >>

body_other ==
    /\ pc = "body"
    /\ node <= Len(docx.children)
    /\ docx.children[node].tag \notin {"Paragraph", "Table"}
    /\ node' = node + 1
    /\ UNCHANGED << input, pc, buf, result, observers, pdf_vars,
                    row, cell, content, caller, child, run_child >>

rows == docx.children[node].children

cells == rows[row].children

cell_children == cells[cell].children

\* After all rows: buf.push('\n').
table_end ==
    /\ pc = "table"
    /\ row > Len(rows)
    /\ buf' = push(buf, "\n")
    /\ node' = node + 1
    /\ row' = 0
    /\ cell' = 0
    /\ content' = 0
    /\ pc' = "body"
    /\ UNCHANGED << input, result, observers, pdf_vars, caller, child, run_child >>

\* As row_end, with a newline pushed after each row.
row_end_newline ==
    /\ pc = "table"
    /\ row <= Len(rows)
    /\ cell > Len(cells)
    /\ buf' = push(buf, "\n")
    /\ row' = row + 1
    /\ cell' = 1
    /\ UNCHANGED << input, pc, result, observers, pdf_vars,
                    node, content, caller, child, run_child >>

row_end ==
    /\ pc = "table"
    /\ row <= Len(rows)
    /\ cell > Len(cells)
    /\ row' = row + 1
    /\ cell' = 1
    /\ UNCHANGED << input, pc, buf, result, observers, pdf_vars,
                    node, content, caller, child, run_child >>

\* After the content of a cell: buf.push('\t').
cell_end ==
    /\ pc = "table"
    /\ row <= Len(rows)
    /\ cell <= Len(cells)
    /\ content > Len(cell_children)
    /\ buf' = push(buf, "\t")
    /\ cell' = cell + 1
    /\ content' = 1
    /\ UNCHANGED << input, pc, result, observers, pdf_vars,
                    node, row, caller, child, run_child >>

cell_paragraph ==
    /\ pc = "table"
    /\ row <= Len(rows)
    /\ cell <= Len(cells)
    /\ content <= Len(cell_children)
    /\ cell_children[content].tag = "Paragraph"
    /\ Call("cell")
    /\ UNCHANGED << input, buf, result, observers, pdf_vars, node, row, cell, content >>

cell_other ==
    /\ pc = "table"
    /\ row <= Len(rows)
    /\ cell <= Len(cells)
    /\ content <= Len(cell_children)
    /\ cell_children[content].tag # "Paragraph"
    /\ content' = content + 1
    /\ UNCHANGED << input, pc, buf, result, observers, pdf_vars,
                    node, row, cell, caller, child, run_child >>

\* ------------------------------------------------------------ extract_paragraph

\* The argument of extract_paragraph: paragraph.children of the paragraph
\* the caller is at.
paragraph ==
    IF caller = "body" THEN docx.children[node].children
    ELSE cell_children[content].children

run == paragraph[child]

\* Ok(()) returned to the caller, which goes on with its loop.
paragraph_return ==
    /\ caller' = "none"
    /\ child' = 0
    /\ run_child' = 0
    /\ IF caller = "body"
       THEN /\ node' = node + 1
            /\ pc' = "body"
            /\ UNCHANGED content
       ELSE /\ content' = content + 1
            /\ pc' = "table"
            /\ UNCHANGED node

\* After the children of the paragraph: buf.push('\n'); Ok(()).
paragraph_end ==
    /\ pc = "paragraph"
    /\ child > Len(paragraph)
    /\ buf' = push(buf, "\n")
    /\ paragraph_return
    /\ UNCHANGED << input, result, observers, pdf_vars, row, cell >>

paragraph_other ==
    /\ pc = "paragraph"
    /\ child <= Len(paragraph)
    /\ run.tag # "Run"
    /\ child' = child + 1
    /\ UNCHANGED << input, pc, buf, result, observers, pdf_vars,
                    node, row, cell, content, caller, run_child >>

run_end ==
    /\ pc = "paragraph"
    /\ child <= Len(paragraph)
    /\ run.tag = "Run"
    /\ run_child > Len(run.children)
    /\ child' = child + 1
    /\ run_child' = 1
    /\ UNCHANGED << input, pc, buf, result, observers, pdf_vars,
                    node, row, cell, content, caller >>

AtRunChild(tags) ==
    /\ pc = "paragraph"
    /\ child <= Len(paragraph)
    /\ run.tag = "Run"
    /\ run_child <= Len(run.children)
    /\ run.children[run_child].tag \in tags

\* RunChild::Text: buf.push_str(&text.text) and the length check.
run_text ==
    /\ AtRunChild({"Text"})
    /\ buf' = push_str(buf, run.children[run_child].text)
    /\ IF len(buf') > MAX_TEXT_LEN
       THEN /\ Return(Err("invalid text length", len(buf'), ""))
            /\ UNCHANGED run_child
       ELSE /\ run_child' = run_child + 1
            /\ UNCHANGED << pc, result >>
    /\ UNCHANGED << input, observers, pdf_vars, node, row, cell, content, caller, child >>

\* RunChild::Break: buf.push('\n').
run_break ==
    /\ AtRunChild({"Break"})
    /\ buf' = push(buf, "\n")
    /\ run_child' = run_child + 1
    /\ UNCHANGED << input, pc, result, observers, pdf_vars,
                    node, row, cell, content, caller, child >>

\* RunChild::Tab: buf.push('\t').
run_tab ==
    /\ AtRunChild({"Tab"})
    /\ buf' = push(buf, "\t")
    /\ run_child' = run_child + 1
    /\ UNCHANGED << input, pc, result, observers, pdf_vars,
                    node, row, cell, content, caller, child >>

run_other ==
    /\ AtRunChild({"OtherRunChild"})
    /\ run_child' = run_child + 1
    /\ UNCHANGED << input, pc, buf, result, observers, pdf_vars,
                    node, row, cell, content, caller, child >>

\* As DocxLengthOk, with the lower bound exclusive.
DocxLengthOk_strict(n) == n > MIN_TEXT_LEN

\* The final check of extract_docx.
DocxLengthOk(n) == ~(n < MIN_TEXT_LEN)

docx_final ==
    /\ pc = "docx_final"
    /\ IF DocxLengthOk(effective_len(buf))
       THEN Return(Ok(buf))
       ELSE Return(Err("invalid text length", effective_len(buf), ""))
    /\ UNCHANGED << input, buf, observers, pdf_vars, docx_vars >>

\* ------------------------------------------------------------ specification

Next ==
    \/ dispatch_invalid_length
    \/ dispatch_valid_length
    \/ set_self_batch
    \/ dispatch_unknown_kind
    \/ dispatch_pdf
    \/ dispatch_docx
    \/ dispatch_unsupported
    \/ pdf_load_failed
    \/ pdf_extract_text_failed
    \/ pdf_extract_text
    \/ pdf_native_sufficient
    \/ pdf_native_insufficient
    \/ ocr_init_failed
    \/ ocr_init_ok
    \/ ocr_loop_end
    \/ ocr_skip_object
    \/ ocr_skip_image
    \/ ocr_text_failed
    \/ ocr_text
    \/ pdf_final
    \/ docx_read_failed
    \/ docx_read
    \/ body_end
    \/ body_paragraph
    \/ body_table
    \/ body_other
    \/ table_end
    \/ row_end
    \/ cell_end
    \/ cell_paragraph
    \/ cell_other
    \/ paragraph_end
    \/ paragraph_other
    \/ run_end
    \/ run_text
    \/ run_break
    \/ run_tab
    \/ run_other
    \/ docx_final

Spec == Init /\ [][Next]_vars

\* ------------------------------------------------------------ properties

Done == pc = "done"

\* The input is a PDF that loads and whose text extract_text gives.
WellFormedPdf ==
    /\ ~InvalidInputLength(input.len)
    /\ input.kind = PDF
    /\ document.load
    /\ document.extract

native == document.text

PdfPcs == { "pdf_native", "ocr_init", "ocr_loop", "pdf_final" }

DocxPcs == { "body", "table", "paragraph", "docx_final" }

TextTooLong(r) == r.type = "Error" /\ r.error = "invalid text length" /\ r.n > MAX_TEXT_LEN

\* C1: in every state of extract_pdf and extract_docx that has not ended in an
\* error, and in every Text result, the buffer is at most MAX_TEXT_LEN bytes.
C1_BufferBounded ==
    /\ pc \in PdfPcs \cup DocxPcs => len(buf) <= MAX_TEXT_LEN
    /\ result.type = "Text" => len(result.text) <= MAX_TEXT_LEN

\* C4: in extract_docx, the append that takes the buffer over MAX_TEXT_LEN ends
\* the extraction with the text-too-long error.
C4_FailsAtCrossingAppend ==
    [][ (pc \in DocxPcs /\ len(buf) <= MAX_TEXT_LEN /\ len(buf') > MAX_TEXT_LEN)
          => TextTooLong(result') ]_vars

\* The input is a DOCX that read_docx reads.
WellFormedDocx ==
    /\ ~InvalidInputLength(input.len)
    /\ input.kind = DOCX
    /\ docx.read

\* An image stream the specification takes as an OCR candidate.
Candidate(o) ==
    /\ IsImageStream(o)
    /\ ~o.content.empty
    /\ o.content.kind \in ImageWhitelist

\* OCR fails for a candidate: it cannot be read, or recognition gives no text.
OcrFails(o) == Candidate(o) /\ (~o.content.pix \/ o.content.ocr # "ok")

C3_NativeTextReturned ==
    (WellFormedPdf /\ effective_len(native) >= MIN_TEXT_LEN)
        => /\ ~ocr_init
           /\ ocr_calls = << >>
           /\ Done => result = Ok(native)

\* C3, amended: such a PDF gives Text equal to the native text when the trimmed
\* length is at most MAX_TEXT_LEN, and the error "invalid text length" with the
\* trimmed length above it; OCR is never initialised or invoked.
C3_NativeTextReturnedOrTooLong ==
    (WellFormedPdf /\ effective_len(native) >= MIN_TEXT_LEN)
        => /\ ~ocr_init
           /\ ocr_calls = << >>
           /\ Done => IF effective_len(native) <= MAX_TEXT_LEN
                      THEN result = Ok(native)
                      ELSE result = Err("invalid text length", effective_len(native), "")

C3_Witness ==
    /\ Done
    /\ WellFormedPdf
    /\ effective_len(native) >= MIN_TEXT_LEN
    /\ result = Ok(native)
    /\ \E i \in 1..Len(objects) :
          IsImageStream(objects[i]) /\ objects[i].content.ocr = "ok"

RECURSIVE Readable(_)
Readable(os) ==
    IF os = << >> THEN << >>
    ELSE LET o == os[Len(os)]
             front == Readable(SubSeq(os, 1, Len(os) - 1))
         IN  IF o.resolves /\ o.stream /\ o.subtype = "Image"
                  /\ ~o.content.empty /\ o.content.pix
             THEN Append(front, o.content)
             ELSE front

RECURSIVE OcrOutput(_)
OcrOutput(os) ==
    IF os = << >> THEN << >>
    ELSE LET o == os[Len(os)]
             front == OcrOutput(SubSeq(os, 1, Len(os) - 1))
         IN  IF o.resolves /\ o.stream /\ o.subtype = "Image"
                  /\ ~o.content.empty /\ o.content.pix /\ o.content.ocr = "ok"
             THEN push_str(front, o.content.text \o Str("\n", 1))
             ELSE front

ImageStreams == { i \in 1..Len(objects) : IsImageStream(objects[i]) }

\* The document has one image stream, and its recognised text is t.
OneImageRecognised(t) ==
    /\ Cardinality(ImageStreams) = 1
    /\ \A i \in ImageStreams :
          /\ ~objects[i].content.empty
          /\ objects[i].content.pix
          /\ objects[i].content.ocr = "ok"
          /\ objects[i].content.text = t

\* C6 as stated: with a native text of trimmed length < 256 the result holds
\* OCR output only, and one image recognised as a text of at least 256 bytes
\* gives a Text result (the image being a candidate the engine was
\* initialised for).
C6_OcrOnlyAnyLength ==
    (WellFormedPdf /\ effective_len(native) < MIN_TEXT_LEN)
        => /\ pc = "ocr_loop" => buf = OcrOutput(SubSeq(objects, 1, object_id - 1))
           /\ result.type = "Text" => result.text = OcrOutput(objects)
           /\ \A t \in OcrTexts :
                (Done /\ object_id > 0 /\ OneImageRecognised(t) /\ len(t) >= MIN_TEXT_LEN
                   /\ \A i \in ImageStreams : Candidate(objects[i]))
                    => result.type = "Text"

\* C6, amended: the result holds OCR output only (each recognised text and a
\* newline, in object order), and one image recognised as a text of trimmed
\* length >= 256 and of at most MAX_TEXT_LEN bytes gives that text and a
\* newline as the Text result, when the engine initialises.
C6_OcrOnly ==
    (WellFormedPdf /\ effective_len(native) < MIN_TEXT_LEN)
        => /\ pc = "ocr_loop" => buf = OcrOutput(SubSeq(objects, 1, object_id - 1))
           /\ result.type = "Text" => result.text = OcrOutput(objects)
           /\ \A t \in OcrTexts :
                (Done /\ object_id > 0 /\ OneImageRecognised(t)
                   /\ effective_len(t) >= MIN_TEXT_LEN /\ len(t) <= MAX_TEXT_LEN)
                    => result = Ok(t \o Str("\n", 1))

C6_Witness ==
    /\ Done
    /\ WellFormedPdf
    /\ native # << >>
    /\ effective_len(native) < MIN_TEXT_LEN
    /\ \E t \in OcrTexts : OneImageRecognised(t)
    /\ result.type = "Text"

\* The range of input lengths dispatch accepts.
InRange == input.len >= 256 /\ input.len <= 5 * 1024 * 1024

DispatchPcs == { "dispatch", "set_self_batch", "sniff", "done" }

\* C7: a parser or extractor is reached only with a length in range and the
\* kind PDF or DOCX; a length out of range gives "invalid input length" before
\* the priority change and the sniffing, an unrecognised buffer gives "unknown
\* file kind", and another kind gives "unsupported file type" naming the kind.
C7_DispatchGuards ==
    /\ (pc \notin DispatchPcs \/ parser # "none")
          => (InRange /\ input.kind \in {PDF, DOCX})
    /\ ~InRange
          => /\ ~batch /\ ~sniffed
             /\ pc \in {"dispatch", "done"}
             /\ Done => result = Err("invalid input length", input.len, "")
    /\ (InRange /\ input.kind = "none")
          => (Done => result = Err("unknown file kind", 0, ""))
    /\ (InRange /\ input.kind \notin {"none", PDF, DOCX})
          => (Done => result = Err("unsupported file type", 0, input.kind))

C7_Witness ==
    /\ Done
    /\ InRange
    /\ input.kind = "image/png"
    /\ batch /\ sniffed /\ parser = "none"
    /\ result.error = "unsupported file type"

\* A body of one paragraph of one run of one text.
OneParagraph(t) == << Node("Paragraph", << Node("Run", << Text(t) >>) >>) >>

NoImageStream == \A i \in 1..Len(objects) : ~IsImageStream(objects[i])

\* C9 as stated: a well-formed PDF with a native text of trimmed length < 256
\* and no image stream gives the error "invalid text length", and no other.
C9_InsufficientText ==
    (WellFormedPdf /\ effective_len(native) < MIN_TEXT_LEN /\ NoImageStream /\ Done)
        => (result.type = "Error" /\ result.error = "invalid text length")

\* C9, amended: such a PDF gives the error "failed to initialize ocr" when the
\* engine cannot be initialised and the error "invalid text length: 0"
\* otherwise; it never gives Text.
C9_InsufficientTextOrNoOcr ==
    (WellFormedPdf /\ effective_len(native) < MIN_TEXT_LEN /\ NoImageStream /\ Done)
        => IF object_id = 0
           THEN result = Err("failed to initialize ocr", 0, "")
           ELSE result = Err("invalid text length", 0, "")

C9_Witness ==
    /\ Done
    /\ WellFormedPdf
    /\ native # << >>
    /\ effective_len(native) < MIN_TEXT_LEN
    /\ NoImageStream
    /\ Len(objects) > 0
    /\ result.error = "invalid text length"

RECURSIVE Flat(_)
\* The concatenation of a sequence of strings.
Flat(ss) == IF ss = << >> THEN << >> ELSE push_str(ss[1], Flat(Tail(ss)))

\* The reference linearisation of a DOCX body.
LinRunChild(c) ==
    CASE c.tag = "Text" -> c.text
      [] c.tag = "Break" -> Str("\n", 1)
      [] c.tag = "Tab" -> Str("\t", 1)
      [] OTHER -> << >>

LinParagraphChild(c) ==
    IF c.tag = "Run"
    THEN Flat([i \in 1..Len(c.children) |-> LinRunChild(c.children[i])])
    ELSE << >>

LinParagraph(p) ==
    push_str(Flat([i \in 1..Len(p.children) |-> LinParagraphChild(p.children[i])]),
             Str("\n", 1))

LinCellContent(c) == IF c.tag = "Paragraph" THEN LinParagraph(c) ELSE << >>

LinCell(c) ==
    push_str(Flat([i \in 1..Len(c.children) |-> LinCellContent(c.children[i])]),
             Str("\t", 1))

LinRow(r) == Flat([i \in 1..Len(r.children) |-> LinCell(r.children[i])])

LinTable(t) ==
    push_str(Flat([i \in 1..Len(t.children) |-> LinRow(t.children[i])]), Str("\n", 1))

LinDocumentChild(c) ==
    CASE c.tag = "Paragraph" -> LinParagraph(c)
      [] c.tag = "Table" -> LinTable(c)
      [] OTHER -> << >>

LinBody(b) == Flat([i \in 1..Len(b) |-> LinDocumentChild(b[i])])

\* C10: when the traversal of the body ends, the buffer is the reference
\* linearisation of the body, and so is a Text result.
C10_Linearisation ==
    WellFormedDocx
        => /\ pc = "docx_final" => buf = LinBody(docx.children)
           /\ result.type = "Text" => result.text = LinBody(docx.children)

C10_Witness ==
    /\ Done
    /\ WellFormedDocx
    /\ result.type = "Text"
    /\ \E i \in 1..Len(docx.children) :
          /\ docx.children[i].tag = "Table"
          /\ Len(docx.children[i].children) = 2
          /\ \E r \in 1..2 : \E c \in 1..Len(docx.children[i].children[r].children) :
                \E k \in 1..Len(docx.children[i].children[r].children[c].children) :
                    docx.children[i].children[r].children[c].children[k].tag = "Paragraph"

====
